---------------------------- MODULE Spec2Model ----------------------------
(***************************************************************************)
(* A model of fixup_iterators.cpp: the iterator_fixup<IterTy> wrapper, the *)
(* detail::inferred_* traits it uses, and the entry points fixup_iterator, *)
(* fixup_range and operator| (range_fixup_adaptor).                        *)
(*                                                                         *)
(* Two specifications share the variables:                                 *)
(*   SpecTypes  what the compiler makes of one expression over one cursor  *)
(*              type (template instantiation, overload resolution);        *)
(*   Spec       what a compiled program does with cursor values and the    *)
(*              wrapped cursors built from them.                           *)
(***************************************************************************)
EXTENDS Integers, Sequences, FiniteSets

VARIABLES
    ty,      \* the cursor type the translation unit is about
    pc,      \* SpecTypes: "source" before, "translated" after the compiler ran
    unit,    \* SpecTypes: what the compiler made of the expression
    vec,     \* Spec: the elements of the std::vector<int> the cursors walk
    mem,     \* Spec: the cursor objects, by address
    w,       \* Spec: the wrapped cursors (iterator_fixup objects)
    rng,     \* Spec: the boost::iterator_range last returned by fixup_range
    ret      \* Spec: what the last operation on a wrapped cursor returned

vars == <<ty, pc, unit, vec, mem, w, rng, ret>>

(***************************************************************************)
(* Bounds.                                                                 *)
(***************************************************************************)
\* deepest pointer type the cursor types mention (int, int*, int**)
MaxPtr == 2
\* most elements of the vector
MaxLen == 3

(***************************************************************************)
(* C++ types: base type, pointer depth, const, reference qualifier.        *)
(* cnst is the const of the type the reference (if any) refers to:         *)
(* const int& is [ptr |-> 0, cnst |-> TRUE, ref |-> "lvalue"].             *)
(***************************************************************************)
IllFormed == "ill-formed"
WellFormed == "well-formed"

RefQualifiers == {"none", "lvalue", "rvalue"}

CppType(p, c, r) == [base |-> "int", ptr |-> p, cnst |-> c, ref |-> r]

\* A member typedef the cursor type does not declare; an operator it lacks.
NoDecl == [base |-> "no-declaration", ptr |-> 0, cnst |-> FALSE, ref |-> "none"]
Absent == [base |-> "absent", ptr |-> 0, cnst |-> FALSE, ref |-> "none"]
NoTag == "no-declaration"

CppTypes == {CppType(p, c, r) : p \in 0..MaxPtr, c \in BOOLEAN, r \in RefQualifiers}

\* The type of a call expression: what an operator can be seen to return. A
\* by-value result of non-class type carries no const.
ReturnTypes == {t \in CppTypes : t.ref = "none" => ~t.cnst}

\* What operator-> returns in the cursor types at hand: a plain pointer.
ArrowTypes == {t \in CppTypes : t.ptr >= 1 /\ t.ref = "none" /\ ~t.cnst}

\* The value types, references and pointers a cursor type declares itself.
DeclaredValueTypes == {CppType(0, FALSE, "none"), CppType(1, FALSE, "none")}
DeclaredReferences == {CppType(0, FALSE, "lvalue"), CppType(1, FALSE, "lvalue")}
DeclaredPointers == {CppType(1, FALSE, "none"), CppType(2, FALSE, "none")}

ptrdiff_t == "std::ptrdiff_t"
DifferenceTypes == {ptrdiff_t, "int"}

input_iterator_tag == "std::input_iterator_tag"
IteratorCategories ==
    {input_iterator_tag, "std::forward_iterator_tag",
     "std::bidirectional_iterator_tag", "std::random_access_iterator_tag"}

\* std::remove_reference_t: the reference qualifier goes, const stays.
remove_reference_t(t) == [t EXCEPT !.ref = "none"]

(***************************************************************************)
(* Cursor types. deref and arrow are what operator* and operator-> return  *)
(* (Absent: no such member); the next five fields are the member typedefs  *)
(* the type declares (NoDecl: none); the rest say which operations exist.  *)
(***************************************************************************)
CursorType(n, d, a, vt, rf, pt, df, ct, caps) ==
    [name |-> n, deref |-> d, arrow |-> a,
     value_type |-> vt, reference |-> rf, pointer |-> pt,
     difference_type |-> df, iterator_category |-> ct,
     preinc |-> caps[1], postinc |-> caps[2], eq |-> caps[3], neq |-> caps[4],
     copy_ctor |-> caps[5], move_ctor |-> caps[6], copy_assign |-> caps[7]]

AllCaps == <<TRUE, TRUE, TRUE, TRUE, TRUE, TRUE, TRUE>>

rvalue_iterator ==
    CursorType("rvalue_iterator", CppType(0, FALSE, "none"), CppType(1, FALSE, "none"),
               CppType(0, FALSE, "none"), CppType(0, FALSE, "lvalue"),
               CppType(1, FALSE, "none"), ptrdiff_t, input_iterator_tag, AllCaps)

pointer_rvalue_iterator ==
    CursorType("pointer_rvalue_iterator", CppType(1, FALSE, "none"),
               CppType(2, FALSE, "none"), CppType(1, FALSE, "none"),
               CppType(1, FALSE, "lvalue"), CppType(2, FALSE, "none"),
               ptrdiff_t, input_iterator_tag, AllCaps)

\* std::vector<int>::iterator: operator* returns int&.
vector_iterator ==
    CursorType("vector_iterator", CppType(0, FALSE, "lvalue"),
               CppType(1, FALSE, "none"), CppType(0, FALSE, "none"),
               CppType(0, FALSE, "lvalue"), CppType(1, FALSE, "none"),
               ptrdiff_t, "std::random_access_iterator_tag", AllCaps)

ExampleTypes == {rvalue_iterator, pointer_rvalue_iterator, vector_iterator}

\* Cursor types with every operation, whatever they declare and return.
MetaVariants ==
    {CursorType("user", d, a, vt, rf, pt, df, ct, AllCaps) :
        d \in ReturnTypes, a \in ArrowTypes,
        vt \in DeclaredValueTypes \cup {NoDecl},
        rf \in DeclaredReferences \cup {NoDecl},
        pt \in DeclaredPointers \cup {NoDecl},
        df \in DifferenceTypes \cup {NoTag},
        ct \in IteratorCategories \cup {NoTag}}

\* Cursor types that declare nothing, with any subset of the operations.
CapVariants ==
    {CursorType("user", d, a, NoDecl, NoDecl, NoDecl, NoTag, NoTag, caps) :
        d \in {Absent, CppType(0, FALSE, "none")},
        a \in {Absent, CppType(1, FALSE, "none")},
        caps \in [1..7 -> BOOLEAN]}

CursorTypes == MetaVariants \cup CapVariants \cup ExampleTypes

(***************************************************************************)
(* detail::inferred_* : the partial specialisation is chosen when the      *)
(* member typedef exists, the primary template otherwise.                  *)
(***************************************************************************)
\* The fallback with std::decay_t in place of std::remove_reference_t.
inferred_value_type_decay(IterTy, Reference) ==
    IF IterTy.value_type # NoDecl THEN IterTy.value_type
    ELSE [Reference EXCEPT !.ref = "none", !.cnst = FALSE]

inferred_value_type(IterTy, Reference) ==
    IF IterTy.value_type # NoDecl THEN IterTy.value_type
    ELSE remove_reference_t(Reference)

\* The fallback with int as the default.
inferred_difference_type_int(IterTy) ==
    IF IterTy.difference_type # NoTag THEN IterTy.difference_type
    ELSE "int"

inferred_difference_type(IterTy) ==
    IF IterTy.difference_type # NoTag THEN IterTy.difference_type
    ELSE ptrdiff_t

\* The fallback with std::forward_iterator_tag as the default.
inferred_iterator_category_forward(IterTy) ==
    IF IterTy.iterator_category # NoTag THEN IterTy.iterator_category
    ELSE "std::forward_iterator_tag"

inferred_iterator_category(IterTy) ==
    IF IterTy.iterator_category # NoTag THEN IterTy.iterator_category
    ELSE input_iterator_tag

(***************************************************************************)
(* iterator_fixup<IterTy>. IterTy is the template argument: a cursor type  *)
(* with the reference and const the call site's deduction put on it.       *)
(***************************************************************************)
TemplateArg(C, r, c) == [cls |-> C, ref |-> r, cnst |-> c]

\* std::decay_t<IterTy>: the cursor type itself.
decayed_type(IterTy) == IterTy.cls

\* reference taken from the cursor type's own typedef when it has one.
reference_declared(C) == IF C.reference # NoDecl THEN C.reference ELSE C.deref
\* decltype(std::declval<decayed_type>().operator*())
reference(C) == C.deref

\* decltype(std::declval<decayed_type>().operator->())
pointer(C) == C.arrow

value_type(C) == inferred_value_type(C, reference(C))

difference_type(C) == inferred_difference_type(C)

iterator_category(C) == inferred_iterator_category(C)

\* ": public IterTy": the base must be a class type, which a reference is not.
\* A const-qualified class names the class.
BaseIsClass(IterTy) == IterTy.ref = "none"

\* The member typedefs sit outside any SFINAE context: a cursor type without
\* a member operator* or operator-> makes the class ill-formed.
NoMeta ==
    [status |-> IllFormed, reference |-> NoDecl, pointer |-> NoDecl,
     value_type |-> NoDecl, difference_type |-> NoTag, iterator_category |-> NoTag]

\* The class without the pointer typedef's use of operator->.
iterator_fixup_without_arrow(IterTy) ==
    LET C == decayed_type(IterTy) IN
    IF BaseIsClass(IterTy) /\ C.deref # Absent
    THEN [status |-> WellFormed,
          reference |-> reference(C),
          pointer |-> pointer(C),
          value_type |-> value_type(C),
          difference_type |-> difference_type(C),
          iterator_category |-> iterator_category(C)]
    ELSE NoMeta

iterator_fixup(IterTy) ==
    LET C == decayed_type(IterTy) IN
    IF BaseIsClass(IterTy) /\ C.deref # Absent /\ C.arrow # Absent
    THEN [status |-> WellFormed,
          reference |-> reference(C),
          pointer |-> pointer(C),
          value_type |-> value_type(C),
          difference_type |-> difference_type(C),
          iterator_category |-> iterator_category(C)]
    ELSE NoMeta

(***************************************************************************)
(* The expressions that build a wrapped cursor, as the compiler sees them. *)
(***************************************************************************)
\* The value category (and const) of the cursor argument; "none": no argument.
ValueCategories == {"lvalue", "const lvalue", "xvalue", "const xvalue", "prvalue"}

\* fixup_iterator(IterTy &&iter): the forwarding reference deduces T& for an
\* lvalue, const T& for a const lvalue, T (or const T) for an rvalue.
DeduceIterTy(C, cat) ==
    CASE cat = "lvalue" -> TemplateArg(C, "lvalue", FALSE)
      [] cat = "const lvalue" -> TemplateArg(C, "lvalue", TRUE)
      [] cat = "const xvalue" -> TemplateArg(C, "none", TRUE)
      [] OTHER -> TemplateArg(C, "none", FALSE)

\* std::forward<IterTy>(iter): an lvalue when IterTy is a reference, an
\* rvalue otherwise, const as IterTy is.
ForwardCategory(IterTy) ==
    CASE IterTy.ref = "lvalue" /\ IterTy.cnst -> "const lvalue"
      [] IterTy.ref = "lvalue" -> "lvalue"
      [] IterTy.cnst -> "const xvalue"
      [] OTHER -> "xvalue"

\* The overload set had the class kept a default constructor.
SelectCtor_with_default(cat) ==
    CASE cat = "none" -> "default"
      [] cat \in {"lvalue", "const lvalue", "const xvalue"} -> "copy-in"
      [] OTHER -> "move-in"

\* Overload resolution among iterator_fixup's constructors taking a cursor:
\* (const decayed_type &) for an lvalue or a const rvalue, (decayed_type &&)
\* for an rvalue. Declaring them leaves the class without a default
\* constructor.
SelectCtor(cat) ==
    CASE cat = "none" -> "no-match"
      [] cat \in {"lvalue", "const lvalue", "const xvalue"} -> "copy-in"
      [] OTHER -> "move-in"

\* The mem-initializer IterTy{ iter } / IterTy{ std::move(iter) }: the second
\* binds to the copy constructor of a cursor type without a move constructor.
CtorBodyOk(C, ctor) ==
    CASE ctor = "copy-in" -> C.copy_ctor
      [] ctor = "move-in" -> C.move_ctor \/ C.copy_ctor
      [] ctor = "default" -> TRUE
      [] OTHER -> FALSE

\* iterator_fixup<IterTy>(arg): the class is instantiated, a constructor chosen
\* and its definition instantiated.
ConstructExpr(expr, IterTy, cat) ==
    LET meta == iterator_fixup(IterTy)
        ctor == SelectCtor(cat)
        ok   == meta.status = WellFormed /\ CtorBodyOk(decayed_type(IterTy), ctor)
    IN [expr |-> expr, arg |-> cat, iter_ty |-> IterTy,
        meta |-> IF ok THEN meta ELSE NoMeta,
        ctor |-> IF ok THEN ctor ELSE "none",
        verdict |-> IF ok THEN WellFormed ELSE IllFormed]

\* fixup_iterator(iter): return iterator_fixup<IterTy>(std::forward<IterTy>(iter));
fixup_iterator(C, cat) ==
    LET IterTy == DeduceIterTy(C, cat)
    IN [ConstructExpr("fixup_iterator", IterTy, ForwardCategory(IterTy))
            EXCEPT !.arg = cat]

NoUnit ==
    [expr |-> "none", arg |-> "none", iter_ty |-> TemplateArg(rvalue_iterator, "none", FALSE),
     meta |-> NoMeta, ctor |-> "none", verdict |-> "none"]

(***************************************************************************)
(* SpecTypes: one cursor type, one expression, translated once.            *)
(***************************************************************************)
NoObject == [pos |-> 0, x |-> 0, live |-> FALSE]
NoWrapper == [base |-> "none", via |-> "none"]
NoRange == [made |-> FALSE]
NoRet == [op |-> "none"]

InitTypes ==
    /\ ty \in CursorTypes
    /\ pc = "source"
    /\ unit = NoUnit
    /\ vec = <<>>
    /\ mem = <<>>
    /\ w = <<>>
    /\ rng = NoRange
    /\ ret = NoRet

runtime_vars == <<vec, mem, w, rng, ret>>

\* typename iterator_fixup<T>::reference and the like: the class is
\* instantiated, nothing is constructed.
NameFixupType ==
    /\ pc = "source"
    /\ pc' = "translated"
    /\ unit' = [NoUnit EXCEPT !.expr = "iterator_fixup<T>",
                              !.iter_ty = TemplateArg(ty, "none", FALSE),
                              !.meta = iterator_fixup(TemplateArg(ty, "none", FALSE)),
                              !.verdict = iterator_fixup(TemplateArg(ty, "none", FALSE)).status]
    /\ UNCHANGED <<ty, runtime_vars>>

\* auto w = fixup_iterator(c);
CallFixupIterator(cat) ==
    /\ pc = "source"
    /\ pc' = "translated"
    /\ unit' = fixup_iterator(ty, cat)
    /\ UNCHANGED <<ty, runtime_vars>>

\* iterator_fixup<T> w(c);  iterator_fixup<T> w;
Construct(cat) ==
    /\ pc = "source"
    /\ pc' = "translated"
    /\ unit' = ConstructExpr("construct", TemplateArg(ty, "none", FALSE), cat)
    /\ UNCHANGED <<ty, runtime_vars>>

NextTypes ==
    \/ NameFixupType
    \/ \E cat \in ValueCategories : CallFixupIterator(cat)
    \/ \E cat \in ValueCategories \cup {"none"} : Construct(cat)

SpecTypes == InitTypes /\ [][NextTypes]_vars

(***************************************************************************)
(* Cursor values and their own operations. A vector_iterator is a position *)
(* in vec (Len(vec) + 1 is end()); the two example cursors hold a member x *)
(* and never move.                                                         *)
(***************************************************************************)
CursorAddrs == {"c1", "c2"}
WIds == {1, 2}
BaseAddr == <<"w1", "w2">>
DirectAddr == <<"d1", "d2">>
Addrs == CursorAddrs \cup {BaseAddr[i] : i \in WIds} \cup {DirectAddr[i] : i \in WIds}

Cursor(p, xx) == [pos |-> p, x |-> xx, live |-> TRUE]

ElemAt(i) == 10 * i

IsVector(C) == C.name = "vector_iterator"

\* operator*
Deref(C, vc, v) ==
    CASE C.name = "rvalue_iterator" -> 1
      [] C.name = "pointer_rvalue_iterator" -> v.x
      [] OTHER -> vc[v.pos]

\* Reading end() and stepping past it are not defined.
Dereferenceable(C, vc, v) == v.live /\ (IsVector(C) => v.pos <= Len(vc))

\* operator==, operator!=
Eq(C, a, b) == IF IsVector(C) THEN a.pos = b.pos ELSE TRUE
Neq(C, a, b) == IF IsVector(C) THEN a.pos # b.pos ELSE FALSE

Stepped(C, v) == IF IsVector(C) THEN [v EXCEPT !.pos = @ + 1] ELSE v

\* operator++(): the advanced cursor; operator++(int): the snapshot before.
PreInc(C, v) == [value |-> Stepped(C, v), result |-> Stepped(C, v)]
PostInc(C, v) == [value |-> Stepped(C, v), result |-> v]

Ops == {"pre", "post"}
Increment(C, v, op) == IF op = "pre" THEN PreInc(C, v) ELSE PostInc(C, v)

(***************************************************************************)
(* The wrapped cursor at run time. The IterTy base subobject of wrapper i  *)
(* lives at BaseAddr[i]; wr.base is where the wrapper's cursor state is.   *)
(***************************************************************************)
\* The reference approach of the source's closing comment: the wrapper
\* refers to the caller's cursor.
copy_in_by_reference(m, i, src) ==
    [mem |-> m, wr |-> [base |-> src, via |-> "copy-in"]]

\* A constructor that leaves the argument out of the mem-initializer.
copy_in_value_initialized(m, i, src) ==
    [mem |-> [m EXCEPT ![BaseAddr[i]] = Cursor(1, 0)],
     wr |-> [base |-> BaseAddr[i], via |-> "copy-in"]]

\* iterator_fixup(const decayed_type &iter) : IterTy{ iter }
copy_in(m, i, src) ==
    [mem |-> [m EXCEPT ![BaseAddr[i]] = m[src]],
     wr |-> [base |-> BaseAddr[i], via |-> "copy-in"]]

\* iterator_fixup(decayed_type &&iter) : IterTy{ std::move(iter) }. The cursor
\* types here move as they copy: the source keeps its value.
move_in(m, i, src) ==
    [mem |-> [m EXCEPT ![BaseAddr[i]] = m[src]],
     wr |-> [base |-> BaseAddr[i], via |-> "move-in"]]

\* The implicit copy constructor of iterator_fixup: copies the base subobject.
copy_wrapped(m, j, wr) ==
    [mem |-> [m EXCEPT ![BaseAddr[j]] = m[wr.base]],
     wr |-> [base |-> BaseAddr[j], via |-> "copy-of-wrapped"]]

\* The operators a wrapped cursor has are those of its base.
WrappedDeref(C, vc, m, wr) == Deref(C, vc, m[wr.base])
WrappedEq(C, m, wa, wb) == Eq(C, m[wa.base], m[wb.base])
WrappedNeq(C, m, wa, wb) == Neq(C, m[wa.base], m[wb.base])

WrappedIncrement(C, m, wr, op) ==
    LET r == Increment(C, m[wr.base], op)
    IN [mem |-> [m EXCEPT ![wr.base] = r.value], result |-> r.result]

(***************************************************************************)
(* fixup_range and the pipeline marker. A range holds its two bounds; a    *)
(* wrapped bound is the cursor state with the wrapper's type.              *)
(***************************************************************************)
\* boost::make_iterator_range(c1, c2)
Range(m) == [begin |-> m["c1"], end |-> m["c2"]]

\* fixup_iterator(range.begin()): begin() returns a temporary.
WrappedValue(C, v) ==
    LET u == fixup_iterator(C, "prvalue")
    IN [state |-> v, via |-> u.ctor, iter_ty |-> u.iter_ty]

\* The two bounds in the other order.
fixup_range_swapped(C, r) ==
    [made |-> TRUE, begin |-> WrappedValue(C, r.end), end |-> WrappedValue(C, r.begin)]

\* boost::make_iterator_range(fixup_iterator(range.begin()),
\*                           fixup_iterator(range.end()))
fixup_range(C, r) ==
    [made |-> TRUE, begin |-> WrappedValue(C, r.begin), end |-> WrappedValue(C, r.end)]

\* operator|(RangeTy &&range, range_fixup_adaptor)
operator_pipe(C, r) == fixup_range(C, r)

(***************************************************************************)
(* Spec: a program over one of the cursor types main() uses.               *)
(***************************************************************************)
Empty == [a \in Addrs |-> NoObject]

Init ==
    /\ ty \in ExampleTypes
    /\ pc = "running"
    /\ unit = NoUnit
    /\ \E n \in 0..MaxLen :
          /\ vec = [k \in 1..(IF IsVector(ty) THEN n ELSE 0) |-> ElemAt(k)]
          /\ \E x1 \in 0..1, x2 \in 0..1 :
                mem = IF IsVector(ty)
                      THEN [Empty EXCEPT !["c1"] = Cursor(1, 0),
                                         !["c2"] = Cursor(n + 1, 0)]
                      ELSE [Empty EXCEPT !["c1"] = Cursor(0, x1),
                                         !["c2"] = Cursor(0, x2)]
    /\ w = [i \in WIds |-> NoWrapper]
    /\ rng = NoRange
    /\ ret = NoRet

Exists(i) == w[i] # NoWrapper

CanStep(C, v) == v.live /\ (IsVector(C) => v.pos <= Len(vec))

\* iterator_fixup<T> wi(c);  T di = c;
WrapCopy(i, src) ==
    /\ ~Exists(i)
    /\ ConstructExpr("construct", TemplateArg(ty, "none", FALSE), "lvalue").verdict = WellFormed
    /\ LET r == copy_in(mem, i, src)
       IN /\ mem' = [r.mem EXCEPT ![DirectAddr[i]] = mem[src]]
          /\ w' = [w EXCEPT ![i] = r.wr]
    /\ UNCHANGED <<ty, pc, unit, vec, rng, ret>>

\* auto wi = fixup_iterator(std::move(c));  T di = c;
WrapMove(i, src) ==
    /\ ~Exists(i)
    /\ fixup_iterator(ty, "xvalue").verdict = WellFormed
    /\ LET r == move_in(mem, i, src)
       IN /\ mem' = [r.mem EXCEPT ![DirectAddr[i]] = mem[src]]
          /\ w' = [w EXCEPT ![i] = r.wr]
    /\ UNCHANGED <<ty, pc, unit, vec, rng, ret>>

\* auto wj = wi;  T dj = di;
CopyWrapped(i, j) ==
    /\ Exists(i) /\ ~Exists(j)
    /\ LET r == copy_wrapped(mem, j, w[i])
       IN /\ mem' = [r.mem EXCEPT ![DirectAddr[j]] = mem[DirectAddr[i]]]
          /\ w' = [w EXCEPT ![j] = r.wr]
    /\ UNCHANGED <<ty, pc, unit, vec, rng, ret>>

\* ++wi; ++di;   or   wi++; di++;
Advance(i, op) ==
    /\ Exists(i)
    /\ CanStep(ty, mem[w[i].base]) /\ CanStep(ty, mem[DirectAddr[i]])
    /\ LET r1 == WrappedIncrement(ty, mem, w[i], op)
           r2 == Increment(ty, r1.mem[DirectAddr[i]], op)
       IN /\ mem' = [r1.mem EXCEPT ![DirectAddr[i]] = r2.value]
          /\ ret' = [op |-> op, target |-> BaseAddr[i],
                     wrapped |-> r1.result, direct |-> r2.result]
    /\ UNCHANGED <<ty, pc, unit, vec, w, rng>>

\* ++c; or c++; on a cursor that was not wrapped.
AdvanceOriginal(src, op) ==
    /\ CanStep(ty, mem[src])
    /\ LET r == Increment(ty, mem[src], op)
       IN /\ mem' = [mem EXCEPT ![src] = r.value]
          /\ ret' = [op |-> op, target |-> src,
                     wrapped |-> r.result, direct |-> r.result]
    /\ UNCHANGED <<ty, pc, unit, vec, w, rng>>

\* auto r = boost::make_iterator_range(c1, c2) | range_fixup_adaptor{};
Pipe ==
    /\ fixup_iterator(ty, "prvalue").verdict = WellFormed
    /\ rng' = operator_pipe(ty, Range(mem))
    /\ UNCHANGED <<ty, pc, unit, vec, mem, w, ret>>

Next ==
    \/ \E i \in WIds, src \in CursorAddrs : WrapCopy(i, src)
    \/ \E i \in WIds, src \in CursorAddrs : WrapMove(i, src)
    \/ \E i \in WIds, j \in WIds : CopyWrapped(i, j)
    \/ \E i \in WIds, op \in Ops : Advance(i, op)
    \/ \E src \in CursorAddrs, op \in Ops : AdvanceOriginal(src, op)
    \/ Pipe

Spec == Init /\ [][Next]_vars

(***************************************************************************)
(* Properties of SpecTypes.                                                *)
(***************************************************************************)
Translated == pc = "translated" /\ unit.verdict = WellFormed

Wraps == pc = "translated" /\ unit.expr \in {"fixup_iterator", "construct"}

IntByValue == CppType(0, FALSE, "none")

\* The operations the capability set asks of a cursor type.
FullCapabilitySet(C) ==
    /\ C.deref # Absent /\ C.arrow # Absent
    /\ C.preinc /\ C.postinc /\ C.eq /\ C.neq
    /\ C.copy_ctor /\ C.copy_assign

\* C1: whatever reference, pointer or value_type the cursor type declares,
\* the wrapped cursor's reference is what operator* returns and its pointer
\* is what operator-> returns.
C1_AuthoritativeOverride ==
    Translated =>
        /\ unit.meta.reference = ty.deref
        /\ unit.meta.pointer = ty.arrow

\* A cursor type whose declared reference and pointer are both wrong.
C1_Witness ==
    /\ Translated
    /\ ty.reference # NoDecl /\ ty.reference # ty.deref
    /\ ty.pointer # NoDecl /\ ty.pointer # ty.arrow
    /\ ty.value_type # NoDecl
    /\ unit.meta.reference = ty.deref

\* C2: the wrapped cursor's value_type is the declared value_type when there
\* is one, and otherwise what operator* returns less its reference
\* qualifier, const kept, the declared reference playing no part.
C2_ValueTypeRule ==
    Translated =>
        unit.meta.value_type =
            IF ty.value_type # NoDecl THEN ty.value_type
            ELSE [base |-> ty.deref.base, ptr |-> ty.deref.ptr,
                  cnst |-> ty.deref.cnst, ref |-> "none"]

\* No declared value_type, operator* returning a reference to const, and a
\* declared reference that says otherwise.
C2_Witness ==
    /\ Translated
    /\ ty.value_type = NoDecl
    /\ ty.deref.ref # "none" /\ ty.deref.cnst
    /\ ty.reference # NoDecl /\ ty.reference # ty.deref
    /\ unit.meta.value_type.cnst /\ unit.meta.value_type.ref = "none"

\* C3: the wrapped cursor's iterator_category is the declared one when there
\* is one and std::input_iterator_tag otherwise, whatever else is declared.
C3_CategoryRule ==
    Translated =>
        unit.meta.iterator_category =
            IF ty.iterator_category \in IteratorCategories
            THEN ty.iterator_category
            ELSE "std::input_iterator_tag"

\* No declared category while the other typedefs are declared.
C3_Witness ==
    /\ Translated
    /\ ty.iterator_category = NoTag
    /\ ty.value_type # NoDecl /\ ty.difference_type # NoTag
    /\ unit.meta.iterator_category = "std::input_iterator_tag"

\* C4: the wrapped cursor's difference_type is the declared one when there
\* is one and std::ptrdiff_t otherwise; a cursor type that returns int by
\* value and declares nothing gets value type int, std::ptrdiff_t and
\* std::input_iterator_tag.
C4_DistanceTypeRule ==
    Translated =>
        /\ unit.meta.difference_type =
              IF ty.difference_type \in DifferenceTypes
              THEN ty.difference_type
              ELSE "std::ptrdiff_t"
        /\ (/\ ty.deref = IntByValue
            /\ ty.value_type = NoDecl
            /\ ty.difference_type = NoTag
            /\ ty.iterator_category = NoTag)
           => /\ unit.meta.value_type = IntByValue
              /\ unit.meta.difference_type = "std::ptrdiff_t"
              /\ unit.meta.iterator_category = "std::input_iterator_tag"

\* The cursor type of the scenario, wrapped.
C4_Witness ==
    /\ Translated
    /\ ty.deref = IntByValue
    /\ ty.value_type = NoDecl
    /\ ty.difference_type = NoTag
    /\ ty.iterator_category = NoTag
    /\ unit.meta.difference_type = "std::ptrdiff_t"

\* C7 as stated: no cursor type that lacks one of the operations of the
\* capability set yields a wrapped cursor.
C7_RejectsEveryMissingCapability ==
    (Wraps /\ unit.verdict = WellFormed) => FullCapabilitySet(ty)

\* C7 as amended: a wrap is rejected when the cursor type lacks operator* or
\* operator->, or cannot be constructed from the argument (copied from an
\* lvalue; moved or copied from an rvalue); a cursor type that only lacks
\* pre-advance, post-advance, ==, != or copy assignment is wrapped when it
\* is passed as an rvalue.
C7_RejectsMissingReadOrConstruction ==
    Wraps =>
        /\ unit.verdict = WellFormed =>
              /\ ty.deref # Absent /\ ty.arrow # Absent
              /\ \/ ty.copy_ctor
                 \/ ty.move_ctor /\ unit.arg \in {"xvalue", "prvalue"}
        /\ (/\ unit.arg \in {"xvalue", "prvalue"}
            /\ ty.deref # Absent /\ ty.arrow # Absent
            /\ (ty.copy_ctor \/ ty.move_ctor))
           => unit.verdict = WellFormed

\* A cursor type that lacks nothing but operator->, rejected.
C7_Witness ==
    /\ Wraps /\ unit.expr = "fixup_iterator" /\ unit.arg = "prvalue"
    /\ ty.arrow = Absent /\ ty.deref # Absent
    /\ ty.preinc /\ ty.postinc /\ ty.eq /\ ty.neq
    /\ ty.copy_ctor /\ ty.move_ctor /\ ty.copy_assign
    /\ unit.verdict = IllFormed

\* C8 as stated: fixup_iterator accepts a cursor of any type with the full
\* capability set, passed as a named value or as a temporary, and builds
\* the wrapped cursor from it.
C8_AcceptsBothModes ==
    (/\ pc = "translated" /\ unit.expr = "fixup_iterator"
     /\ FullCapabilitySet(ty))
    => /\ unit.verdict = WellFormed
       /\ unit.ctor \in {"copy-in", "move-in"}

\* C10: constructing a wrapped cursor from no cursor value is rejected, and
\* every accepted construction went through the constructor taking a cursor
\* by const reference or the one taking it by rvalue reference.
C10_NoDefaultConstruction ==
    Wraps =>
        /\ unit.arg = "none" => unit.verdict = IllFormed /\ unit.ctor = "none"
        /\ unit.verdict = WellFormed =>
              /\ unit.ctor \in {"copy-in", "move-in"}
              /\ unit.arg \in ValueCategories

\* iterator_fixup<T> w; over a cursor type that lacks nothing.
C10_Witness ==
    /\ Wraps /\ unit.expr = "construct" /\ unit.arg = "none"
    /\ FullCapabilitySet(ty) /\ ty.move_ctor
    /\ unit.verdict = IllFormed

(***************************************************************************)
(* Properties of Spec.                                                     *)
(***************************************************************************)
\* C5: a wrapped cursor and the cursor it was built from, advanced by the
\* same operations, read the same value after every step; the operations
\* return the same; == and != on two wrapped cursors say what they say on
\* the two cursors.
C5_BehaviouralTransparency ==
    pc = "running" =>
        /\ \A i \in WIds :
              (Exists(i) /\ Dereferenceable(ty, vec, mem[DirectAddr[i]])) =>
                  /\ Dereferenceable(ty, vec, mem[w[i].base])
                  /\ WrappedDeref(ty, vec, mem, w[i]) = Deref(ty, vec, mem[DirectAddr[i]])
        /\ \A i \in WIds, j \in WIds :
              (Exists(i) /\ Exists(j)) =>
                  /\ WrappedEq(ty, mem, w[i], w[j])
                        = Eq(ty, mem[DirectAddr[i]], mem[DirectAddr[j]])
                  /\ WrappedNeq(ty, mem, w[i], w[j])
                        = Neq(ty, mem[DirectAddr[i]], mem[DirectAddr[j]])
        /\ ret.op \in Ops => ret.wrapped = ret.direct

\* Two wrapped vector cursors, the first stepped by a post-advance to a
\* place where it reads another element than the second.
C5_Witness ==
    /\ pc = "running" /\ IsVector(ty)
    /\ Exists(1) /\ Exists(2)
    /\ ret.op = "post" /\ ret.target = BaseAddr[1]
    /\ Dereferenceable(ty, vec, mem[w[1].base])
    /\ Dereferenceable(ty, vec, mem[w[2].base])
    /\ WrappedDeref(ty, vec, mem, w[1]) # WrappedDeref(ty, vec, mem, w[2])
    /\ WrappedNeq(ty, mem, w[1], w[2])
    /\ mem[w[1].base].pos > 1

\* C6: advancing a wrapped cursor changes neither the named cursors nor any
\* other wrapped cursor's position or what it reads.
C6_OwnershipIndependence ==
    [][\A i \in WIds, op \in Ops :
          Advance(i, op) =>
              /\ \A c \in CursorAddrs : mem'[c] = mem[c]
              /\ \A j \in WIds \ {i} :
                    Exists(j) =>
                        /\ mem'[w[j].base] = mem[w[j].base]
                        /\ Dereferenceable(ty, vec, mem[w[j].base]) =>
                              WrappedDeref(ty, vec, mem', w[j])
                                  = WrappedDeref(ty, vec, mem, w[j])]_vars

\* Two wrapped cursors copied from c1, the first advanced past it.
C6_Witness ==
    /\ pc = "running" /\ IsVector(ty)
    /\ Exists(1) /\ Exists(2)
    /\ w[1].via = "copy-in" /\ w[2].via = "copy-in"
    /\ ret.op \in Ops /\ ret.target = BaseAddr[1]
    /\ mem[w[1].base].pos = mem["c1"].pos + 1
    /\ mem[w[2].base] = mem["c1"]

\* C9: r | range_fixup_adaptor{} is fixup_range(r): the wrapped begin of r,
\* then the wrapped end of r, both of type iterator_fixup<T>, and neither r
\* nor anything else changes.
C9_PipeIsFixupRange ==
    [][Pipe =>
          /\ rng' = fixup_range(ty, Range(mem))
          /\ rng'.begin.state = mem["c1"]
          /\ rng'.end.state = mem["c2"]
          /\ rng'.begin.iter_ty = TemplateArg(ty, "none", FALSE)
          /\ rng'.end.iter_ty = rng'.begin.iter_ty
          /\ rng'.begin.via = "move-in" /\ rng'.end.via = "move-in"
          /\ mem' = mem /\ w' = w /\ vec' = vec]_vars

\* A range over a vector that is not empty, piped.
C9_Witness ==
    /\ pc = "running" /\ rng.made
    /\ rng.begin.state # rng.end.state
    /\ rng.begin.state = mem["c1"] /\ rng.end.state = mem["c2"]

=============================================================================
